---- MODULE Spec2Model ----
(***************************************************************************)
(* A model of the AIDA plugin: the pseudocode collector of                 *)
(* backend/Action_Handler.py, the request dispatcher of                    *)
(* backend/AI_Handler.py, and one summarize surface with its background    *)
(* workers (frontend/Summarize_Widget.py, helpers/Async_Thread.py).        *)
(*                                                                         *)
(* Texts are sequences of one-character strings.                           *)
(***************************************************************************)
EXTENDS Integers, Sequences, FiniteSets, TLC

VARIABLES
    \* ---- collector (ActionHandler.__get_all_related_pseudocode) ----
    c_pc,               \* "idle" | "loop" | "done"
    primary_pseudocode, \* the argument
    host,               \* the host database: reference name -> outcome of decompiling it
    result,             \* the local `result`
    collected_funcs,    \* the local set `collected_funcs`
    funcs_to_process,   \* the local set `funcs_to_process`
    host_calls,         \* history: names passed to __get_function_pseudocode, in order
    sections,           \* history: names whose section was appended, in order
    c_raised,           \* history: an exception left the collector
    \* ---- dispatcher (AIHandler.process_request) ----
    d_pc,               \* "idle" | "done"
    d_args,             \* the arguments of the call
    d_return,           \* what the call returned (or that it raised)
    d_requests,         \* history: the requests sent to the translation service
    \* ---- one summarize surface and its workers ----
    responseTE,         \* SummarizeWidget.responseTE: "None" | "live" | "deleted"
    output,             \* the text the output area shows, and the worker it came from
    plugin_main_widget, \* AIDAPlugin.main_widget: "None" | "open" | "closed"
    main_widget,        \* SummarizeWidget.main_widget: "None" | "ref"
    token_input,        \* the text of MainWidget.token_input
    async_thread,       \* SummarizeWidget._async_thread: 0 (None) or a worker
    workers,            \* the AsyncThread objects created so far
    next_worker,        \* the number of the next AsyncThread
    event_queue,        \* signals emitted by workers, queued for the UI thread
    ui_pc,              \* the UI thread: "idle" | "set_wait" | "cb_wait"
    ui_arg,             \* the argument of the set_pseudocode call that is waiting
    ui_last,            \* history: the UI handler that completed last, and what it read
    preempted,          \* history: workers a set_pseudocode joined while they were live
    failures            \* history: the kinds of failure requests have ended in

c_vars == <<c_pc, primary_pseudocode, host, result, collected_funcs,
            funcs_to_process, host_calls, sections, c_raised>>

d_vars == <<d_pc, d_args, d_return, d_requests>>

s_vars == <<responseTE, output, plugin_main_widget, main_widget, token_input,
            async_thread, workers, next_worker, event_queue, ui_pc, ui_arg,
            ui_last, preempted, failures>>

vars == <<c_vars, d_vars, s_vars>>

(***************************************************************************)
(* Bounds of the model.                                                    *)
(***************************************************************************)
\* The primary text is a concatenation of at most MaxLexemes lexemes.
MaxLexemes == 3

\* At most MaxRequests workers are created on the surface.
MaxRequests == 3

(***************************************************************************)
(* Text helpers.                                                           *)
(***************************************************************************)
RECURSIVE Concat(_)
\* The concatenation of a sequence of texts.
Concat(ts) == IF ts = <<>> THEN <<>> ELSE Head(ts) \o Concat(Tail(ts))

\* t[i], or "" past the end of the text.
CharAt(t, i) == IF i >= 1 /\ i <= Len(t) THEN t[i] ELSE ""

\* Whether text p occurs in t at position i.
OccursAt(t, p, i) ==
    /\ i >= 1
    /\ i + Len(p) - 1 <= Len(t)
    /\ \A k \in 1..Len(p) : t[i + k - 1] = p[k]

\* Whether t starts with p, and p followed by s is t.
IsPrefixOf(p, t) == OccursAt(t, p, 1)

SetMax(S) == CHOOSE x \in S : \A y \in S : y <= x

SetMin(S) == CHOOSE x \in S : \A y \in S : x <= y

\* The set of elements of a sequence.
Range(s) == {s[i] : i \in 1..Len(s)}

(***************************************************************************)
(* The regular expressions of Action_Handler.py.                           *)
(***************************************************************************)
\* The character class [0-9A-Fa-f].
HexDigits == {"0", "1", "2", "3", "4", "5", "6", "7", "8", "9",
              "A", "B", "C", "D", "E", "F", "a", "b", "c", "d", "e", "f"}

\* The character class \s.
Whitespace == {" ", "\t", "\n", "\r", "\f"}

\* The literal prefix of the pattern.
SubPrefix == <<"s", "u", "b", "_">>

RECURSIVE ClassRun(_, _, _)
\* The number of consecutive characters of class cls in t from position i.
ClassRun(t, i, cls) ==
    IF CharAt(t, i) \in cls THEN 1 + ClassRun(t, i + 1, cls) ELSE 0

\* The pattern written with * for +: the bare prefix matches too.
SubMatchLen_Star(t, i) ==
    IF OccursAt(t, SubPrefix, i)
    THEN 4 + ClassRun(t, i + 4, HexDigits)
    ELSE 0

\* The length of the (greedy) match of  sub_[0-9A-Fa-f]+  at position i of t;
\* 0 when the pattern does not match there.
SubMatchLen(t, i) ==
    IF OccursAt(t, SubPrefix, i) /\ ClassRun(t, i + 4, HexDigits) >= 1
    THEN 4 + ClassRun(t, i + 4, HexDigits)
    ELSE 0

RECURSIVE FindAllFrom(_, _)
\* re.findall(r'sub_[0-9A-Fa-f]+', t) from position i on: the non-overlapping
\* matches, left to right.
FindAllFrom(t, i) ==
    IF i > Len(t) THEN <<>>
    ELSE IF SubMatchLen(t, i) > 0
         THEN <<SubSeq(t, i, i + SubMatchLen(t, i) - 1)>>
              \o FindAllFrom(t, i + SubMatchLen(t, i))
         ELSE FindAllFrom(t, i + 1)

\* ActionHandler.__extract_sub_functions: set(findall(pattern, pseudocode)).
ExtractSubFunctions(pseudocode) == Range(FindAllFrom(pseudocode, 1))

\* The pattern written without \s*: the parenthesis has to follow at once.
MainMatchRuns_Immediate(t, i) ==
    IF ~OccursAt(t, SubPrefix, i) THEN {}
    ELSE {h \in 1..ClassRun(t, i + 4, HexDigits) : CharAt(t, i + 4 + h) = "("}

\* The lengths h of group 1's hex run with which  (sub_[0-9A-Fa-f]+)\s*\(
\* matches at position i: the hex digits, then any whitespace, then "(".
MainMatchRuns(t, i) ==
    IF ~OccursAt(t, SubPrefix, i) THEN {}
    ELSE {h \in 1..ClassRun(t, i + 4, HexDigits) :
            \E s \in 0..ClassRun(t, i + 4 + h, Whitespace) :
                CharAt(t, i + 4 + h + s) = "("}

\* search(r'(sub_[0-9A-Fa-f]+)\s*\(', t): <<>> for no match (None), otherwise
\* group(1) of the leftmost match, its hex run as long as possible.
SearchMainFunc(t) ==
    LET at == {i \in 1..Len(t) : MainMatchRuns(t, i) # {}}
    IN  IF at = {} THEN <<>>
        ELSE LET i == SetMin(at)
             IN  SubSeq(t, i, i + 3 + SetMax(MainMatchRuns(t, i)))

(***************************************************************************)
(* The host decompiler, as __get_function_pseudocode sees it.              *)
(***************************************************************************)
\* What the host does with one reference name:
\*   "badaddr"     get_name_ea returns BADADDR
\*   "nofunc"      get_func returns None
\*   "nodecompile" decompile returns None
\*   "raises"      a host call raises
\*   "nolines"     cfunc.get_pseudocode() is empty
\*   "blank"       every line of the listing is blank once cleaned
\*   "ok"          a listing with text
HostOutcomes == {"badaddr", "nofunc", "nodecompile", "raises", "nolines",
                 "blank", "ok"}

\* The escape characters that open and close a colour tag in a raw line; each is
\* followed by one colour code character.
TagOn == "\\1"

TagOff == "\\2"

RECURSIVE TagRemove(_)
\* ida_lines.tag_remove: the line without its colour tags.
TagRemove(line) ==
    IF line = <<>> THEN <<>>
    ELSE IF Head(line) \in {TagOn, TagOff}
         THEN TagRemove(IF Len(line) >= 2 THEN SubSeq(line, 3, Len(line)) ELSE <<>>)
         ELSE <<Head(line)>> \o TagRemove(Tail(line))

\* Whether clean_line.strip() is non-empty.
StripNonEmpty(line) == \E i \in 1..Len(line) : line[i] \notin Whitespace

RECURSIVE Join(_, _)
\* sep.join(lines).
Join(lines, sep) ==
    IF lines = <<>> THEN <<>>
    ELSE IF Len(lines) = 1 THEN lines[1]
    ELSE lines[1] \o sep \o Join(Tail(lines), sep)

RECURSIVE CleanLines(_)
\* The loop over sv: the cleaned lines that are not blank.
CleanLines(sv) ==
    IF sv = <<>> THEN <<>>
    ELSE LET clean_line == TagRemove(Head(sv))
         IN  (IF StripNonEmpty(clean_line) THEN <<clean_line>> ELSE <<>>)
             \o CleanLines(Tail(sv))

\* The raw listing the host gives for a function that decompiles: its header,
\* blank lines, a call of itself and calls of other functions.
OkListing(func_name) ==
    << <<TagOn, "!">> \o func_name \o <<TagOff, "!", "(", ")">>,
       <<" ", "\t">>,
       <<>>,
       <<" ">> \o func_name \o <<"(", ")", ";">>,
       <<" ">> \o SubPrefix \o <<"1", "0", "0", "0", "(", ")", ";">>
           \o SubPrefix \o <<"2", "0", "0", "0", "(", ")", ";">>
           \o SubPrefix \o <<"9", "(", ")", ";">> >>

\* A raw listing with nothing but blank lines and tags.
BlankListing == << <<" ">>, <<TagOn, "!", TagOff, "!">>, <<"\t", " ">> >>

\* cfunc.get_pseudocode() for a function the host decompiles.
RawListing(outcome, func_name) ==
    CASE outcome = "ok" -> OkListing(func_name)
      [] outcome = "blank" -> BlankListing
      [] OTHER -> <<>>

\* The body of the try block of __get_function_pseudocode: what it returns, or
\* that it raised.
TryGetFunctionPseudocode(outcome, func_name) ==
    CASE outcome = "raises" -> [raised |-> TRUE, code |-> <<>>]
      [] outcome \in {"badaddr", "nofunc", "nodecompile"} ->
             [raised |-> FALSE, code |-> <<>>]
      [] OTHER ->
             LET sv == RawListing(outcome, func_name)
             IN  IF sv # <<>>
                 THEN [raised |-> FALSE, code |-> Join(CleanLines(sv), <<"\n">>)]
                 ELSE [raised |-> FALSE, code |-> <<>>]

\* ActionHandler.__get_function_pseudocode: an exception is printed and ""
\* returned.
GetFunctionPseudocode(outcome, func_name) ==
    LET r == TryGetFunctionPseudocode(outcome, func_name)
    IN  IF r.raised THEN [raised |-> FALSE, code |-> <<>>] ELSE r

(***************************************************************************)
(* The collector: ActionHandler.__get_all_related_pseudocode.              *)
(***************************************************************************)
\* "\n\n// Function: "
SectionLead == <<"\n", "\n", "/", "/", " ", "F", "u", "n", "c", "t", "i", "o",
                 "n", ":", " ">>

\* f"\n\n// Function: {current_func}\n{func_code}"
Section(current_func, func_code) ==
    SectionLead \o current_func \o <<"\n">> \o func_code

Sub1000 == SubPrefix \o <<"1", "0", "0", "0">>

Sub2000 == SubPrefix \o <<"2", "0", "0", "0">>

\* The pieces primary texts are made of: references with and without a call
\* parenthesis, a bare prefix, a hex digit, a blank and a parenthesis.
Lexemes == {Sub1000, Sub1000 \o <<"(">>, Sub2000 \o <<"(">>,
            SubPrefix, <<"A">>, <<" ">>, <<"(">>, <<" ", "(">>}

\* The primary texts of the model.
PrimaryTexts ==
    {Concat(ls) : ls \in UNION {[1..n -> Lexemes] : n \in 0..MaxLexemes}}

\* Lines 120-133: the locals before the loop.
CollectStart ==
    /\ c_pc = "idle"
    /\ result' = primary_pseudocode
    /\ funcs_to_process' = ExtractSubFunctions(primary_pseudocode)
    /\ collected_funcs' =
           (IF SearchMainFunc(primary_pseudocode) # <<>>
            THEN {SearchMainFunc(primary_pseudocode)} ELSE {})
    /\ c_pc' = "loop"
    /\ UNCHANGED <<primary_pseudocode, host, host_calls, sections, c_raised>>
    /\ UNCHANGED <<d_vars, s_vars>>

\* A transitive expansion that marks nothing visited: the references of the
\* helper's body are queued and the helper is not added to collected_funcs.
ProcessFunc_Rescan(current_func) ==
    LET got == GetFunctionPseudocode(host[current_func], current_func)
    IN  /\ funcs_to_process' =
               ((funcs_to_process \ {current_func})
                   \cup (ExtractSubFunctions(got.code) \cap DOMAIN host))
        /\ host_calls' = Append(host_calls, current_func)
        /\ result' = (IF got.code # <<>>
                      THEN result \o Section(current_func, got.code)
                      ELSE result)
        /\ sections' = (IF got.code # <<>>
                        THEN Append(sections, current_func)
                        ELSE sections)
        /\ UNCHANGED <<collected_funcs, c_pc, c_raised>>

\* A transitive expansion: the references of the helper's body join the pending
\* set, and the visited set keeps each from being decompiled twice.
ProcessFunc_Transitive(current_func) ==
    LET got == GetFunctionPseudocode(host[current_func], current_func)
    IN  /\ funcs_to_process' =
               ((funcs_to_process \ {current_func})
                   \cup (ExtractSubFunctions(got.code) \cap DOMAIN host))
        /\ collected_funcs' = collected_funcs \cup {current_func}
        /\ host_calls' = Append(host_calls, current_func)
        /\ result' = (IF got.code # <<>>
                      THEN result \o Section(current_func, got.code)
                      ELSE result)
        /\ sections' = (IF got.code # <<>>
                        THEN Append(sections, current_func)
                        ELSE sections)
        /\ UNCHANGED <<c_pc, c_raised>>

\* The helper's section put in front of the text instead of after it.
ProcessFunc_Prepend(current_func) ==
    LET got == GetFunctionPseudocode(host[current_func], current_func)
    IN  /\ funcs_to_process' = funcs_to_process \ {current_func}
        /\ collected_funcs' = collected_funcs \cup {current_func}
        /\ host_calls' = Append(host_calls, current_func)
        /\ result' = (IF got.code # <<>>
                      THEN Section(current_func, got.code) \o result
                      ELSE result)
        /\ sections' = (IF got.code # <<>>
                        THEN Append(sections, current_func)
                        ELSE sections)
        /\ UNCHANGED <<c_pc, c_raised>>

\* Lines 137 and 143-148 for the popped current_func, not yet collected:
\* decompile it and append its section.
ProcessFunc(current_func) ==
    LET got == GetFunctionPseudocode(host[current_func], current_func)
    IN  /\ funcs_to_process' = funcs_to_process \ {current_func}
        /\ collected_funcs' = collected_funcs \cup {current_func}
        /\ host_calls' = Append(host_calls, current_func)
        /\ IF got.raised
           THEN /\ c_raised' = TRUE
                /\ c_pc' = "done"
                /\ UNCHANGED <<result, sections>>
           ELSE /\ result' = (IF got.code # <<>>
                              THEN result \o Section(current_func, got.code)
                              ELSE result)
                /\ sections' = (IF got.code # <<>>
                                THEN Append(sections, current_func)
                                ELSE sections)
                /\ UNCHANGED <<c_pc, c_raised>>

\* Lines 136-148: one turn of the loop; set.pop() takes any element.
CollectIter ==
    /\ c_pc = "loop"
    /\ funcs_to_process # {}
    /\ \E current_func \in funcs_to_process :
        IF current_func \in collected_funcs
        THEN /\ funcs_to_process' = funcs_to_process \ {current_func}
             /\ UNCHANGED <<result, collected_funcs, host_calls, sections,
                            c_pc, c_raised>>
        ELSE ProcessFunc(current_func)
    /\ UNCHANGED <<primary_pseudocode, host>>
    /\ UNCHANGED <<d_vars, s_vars>>

\* Line 150: return result.
CollectReturn ==
    /\ c_pc = "loop"
    /\ funcs_to_process = {}
    /\ c_pc' = "done"
    /\ UNCHANGED <<primary_pseudocode, host, result, collected_funcs,
                   funcs_to_process, host_calls, sections, c_raised>>
    /\ UNCHANGED <<d_vars, s_vars>>

(***************************************************************************)
(* The dispatcher: AIHandler.process_request.                              *)
(***************************************************************************)
\* str.lower() on the letters.
LowerCase == [c \in {"A", "B", "C", "D", "E", "F", "G", "H", "I", "J", "K", "L",
                     "M", "N", "O", "P", "Q", "R", "S", "T", "U", "V", "W", "X",
                     "Y", "Z"} |->
    CASE c = "A" -> "a" [] c = "B" -> "b" [] c = "C" -> "c" [] c = "D" -> "d"
      [] c = "E" -> "e" [] c = "F" -> "f" [] c = "G" -> "g" [] c = "H" -> "h"
      [] c = "I" -> "i" [] c = "J" -> "j" [] c = "K" -> "k" [] c = "L" -> "l"
      [] c = "M" -> "m" [] c = "N" -> "n" [] c = "O" -> "o" [] c = "P" -> "p"
      [] c = "Q" -> "q" [] c = "R" -> "r" [] c = "S" -> "s" [] c = "T" -> "t"
      [] c = "U" -> "u" [] c = "V" -> "v" [] c = "W" -> "w" [] c = "X" -> "x"
      [] c = "Y" -> "y" [] c = "Z" -> "z"]

\* A misspelt routing test: the model name is compared as it was typed.
Lower_AsTyped(t) == t

\* model_name.lower().
Lower(t) == [i \in 1..Len(t) |-> IF t[i] \in DOMAIN LowerCase THEN LowerCase[t[i]] ELSE t[i]]

\* "deepseek"
Deepseek == <<"d", "e", "e", "p", "s", "e", "e", "k">>

\* "DeepSeek-V3", the one item of MainWidget.model_combo.
DeepSeekV3 == <<"D", "e", "e", "p", "S", "e", "e", "k", "-", "V", "3">>

\* The placeholder of the system prompt.
LanguagePlaceholder == "[language_combobox_value]"

\* AIHandler.__SYSTEM_PROMPT, cut at its placeholders.
SYSTEM_PROMPT ==
    <<"Act as an expert reverse engineer ... clean, modern, readable ",
      LanguagePlaceholder,
      " code. Key requirements: ... safer alternatives appropriate for ",
      LanguagePlaceholder,
      ". CRITICAL: ... no markdown, explanations, or comments around it.">>

\* str.replace(old, new) on a text cut at the occurrences of old.
Replace(t, old, new) == [i \in 1..Len(t) |-> IF t[i] = old THEN new ELSE t[i]]

\* The label of the dispatcher's error string.
ErrorLabel == "Error processing request: "

\* The generation parameters of the request.
Temperature == 0

MaxTokens == 2048

TopP == 1

\* What the translation service does with a request:
\*   "content"       a reply whose first choice has text
\*   "null_content"  a reply whose first choice has no content (None)
\*   "empty_choices" a reply with no choice
\*   "raises"        client.complete raises (network, auth, quota)
ServiceOutcomes == {"content", "null_content", "empty_choices", "raises"}

\* The values a call returns: a string, or None.
StrValue(text) == [kind |-> "str", text |-> text]

NoneValue == [kind |-> "None", text |-> <<>>]

\* The text the service replies with.
Translation(pseudocode, target_language) ==
    <<"translation", target_language, pseudocode>>

\* AIHandler.__process_deepseek: the one request to the service and, from its
\* reply, the content of the first choice; `raised` when the call or the access
\* to the reply raises.
ProcessDeepseek(model, system_prompt, pseudocode, api_key, target_language, svc) ==
    LET request == [credential |-> api_key,
                    system |-> system_prompt,
                    user |-> <<"Translate this IDA Pro decompiled pseudocode to clean, modern ",
                               target_language, " code. ...:\n\n", pseudocode>>,
                    model |-> model,
                    temperature |-> Temperature,
                    max_tokens |-> MaxTokens,
                    top_p |-> TopP]
    IN  CASE svc = "raises" ->
                 [raised |-> TRUE, exc |-> "HttpResponseError",
                  value |-> NoneValue, requests |-> <<request>>]
          [] svc = "empty_choices" ->
                 [raised |-> TRUE, exc |-> "list index out of range",
                  value |-> NoneValue, requests |-> <<request>>]
          [] svc = "null_content" ->
                 [raised |-> FALSE, exc |-> "",
                  value |-> NoneValue, requests |-> <<request>>]
          [] OTHER ->
                 [raised |-> FALSE, exc |-> "",
                  value |-> StrValue(Translation(pseudocode, target_language)),
                  requests |-> <<request>>]

\* AIHandler.process_request: the value returned and the requests sent.
ProcessRequest(model_name, pseudocode, target_language, api_key, svc) ==
    LET system_prompt == Replace(SYSTEM_PROMPT, LanguagePlaceholder, target_language)
    IN  IF IsPrefixOf(Deepseek, Lower(model_name))
        THEN LET r == ProcessDeepseek(model_name, system_prompt, pseudocode,
                                      api_key, target_language, svc)
             IN  IF r.raised
                 THEN [raised |-> FALSE, value |-> StrValue(<<ErrorLabel, r.exc>>),
                       requests |-> r.requests]
                 ELSE [raised |-> FALSE, value |-> r.value, requests |-> r.requests]
        ELSE [raised |-> FALSE, value |-> NoneValue, requests |-> <<>>]

\* The spellings of a word with each letter in either case.
CaseVariants(word) ==
    {[i \in 1..Len(word) |->
        IF i \in upper THEN CHOOSE c \in DOMAIN LowerCase : LowerCase[c] = word[i]
        ELSE word[i]] : upper \in SUBSET (1..Len(word))}

\* The model names the dispatcher is called with: "deepseek" in every letter
\* case, alone and with a version, and names outside the family.
ModelNames ==
    {v \o tail : v \in CaseVariants(Deepseek), tail \in {<<>>, <<"-", "V", "3">>}}
    \cup {<<>>,
          <<"d", "e", "e", "p">>,
          <<"d", "e", "e", "p", "s", "e", "e">>,
          <<"D", "e", "e", "p", "S", "e", "a", "k", "-", "V", "3">>,
          <<"x">> \o Deepseek,
          <<" ">> \o DeepSeekV3,
          <<"g", "p", "t", "-", "4", "o">>}

\* The items of MainWidget.lang_combo.
Languages == {"C++", "Swift", "Go", "Rust", "Python", "C#"}

\* The credentials: none, and one.
ApiKeys == {"", "key"}

\* The texts sent for translation.
Pseudocodes == {<<"a">>, <<"b">>}

\* One call of process_request, run to its end.
DispatchCall ==
    /\ d_pc = "idle"
    /\ \E svc \in ServiceOutcomes :
        LET r == ProcessRequest(d_args.model_name, d_args.pseudocode,
                                d_args.target_language, d_args.api_key, svc)
        IN  /\ d_return' = (IF r.raised THEN [kind |-> "raise", text |-> <<>>]
                            ELSE r.value)
            /\ d_requests' = d_requests \o r.requests
    /\ d_pc' = "done"
    /\ UNCHANGED <<d_args, c_vars, s_vars>>

(***************************************************************************)
(* The summarize surface: SummarizeWidget, and its AsyncThread workers.    *)
(***************************************************************************)
\* The messages set_pseudocode shows.
NotInitializedMessage ==
    <<"Plugin widget is not initialized. Press Alt + T first. Then try again">>

WidgetClosedMessage ==
    <<"Plugin widget was closed. Press Alt + T to reopen it. Then try again">>

ApiKeyRequiredMessage == <<"API key is required">>

\* str(e) of the TypeError that finished.emit raises for a value that is no str.
EmitTypeError == <<"AsyncThread.finished[str].emit(): argument 1 has unexpected type 'NoneType'">>

\* The text the surface is asked to translate.
SurfaceCodes == {<<"a">>}

\* The first item of MainWidget.lang_combo, its current text.
CurrentLanguage == "C++"

\* An AsyncThread not created yet.
NoWorker == [pc |-> "none", code |-> <<>>, api_key |-> "", loop |-> "none"]

\* The workers that are started and have not finished.
LiveWorkers == {w \in DOMAIN workers : workers[w].pc \in {"running", "emitted"}}

\* A cleanup that only asks the thread to quit and does not wait for it.
CanJoin_NoWait(w) == TRUE

\* QThread.wait() returns when the thread's run() has returned.
CanJoin(w) == workers[w].pc = "finished"

\* The finally block of AsyncThread.run: the loop is stopped and closed only when
\* it is still running.
LoopAfterFinally(loop, is_running) ==
    IF loop # "none" /\ is_running THEN "closed" ELSE loop

\* What the UI handler that completes reads as it starts, and what became of its
\* call of responseTE.setPlainText: "not called", "shown", or "raised" (the
\* RuntimeError of a wrapper whose control the host has deleted).
Reading(op, call) ==
    [op |-> op, responseTE |-> responseTE, main_widget |-> main_widget,
     plugin_main_widget |-> plugin_main_widget, api_key |-> token_input,
     next_worker |-> next_worker, failures |-> failures, setPlainText |-> call]

\* responseTE.setPlainText(text) on the output area as it is now.
TextCall == IF responseTE = "live" THEN "shown" ELSE "raised"

\* The output area after responseTE.setPlainText(text), the text being sender's.
SetPlainText(text, sender) ==
    output' = IF responseTE = "live" THEN [text |-> text, from |-> sender] ELSE output

\* set_pseudocode with the validation of the credential left out.
SetPseudocodeBody_NoValidation(code) ==
    IF main_widget = "None"
    THEN /\ SetPlainText(NotInitializedMessage, 0)
         /\ async_thread' = 0
         /\ ui_last' = Reading("set_pseudocode", TextCall)
         /\ UNCHANGED <<main_widget, workers, next_worker, failures>>
    ELSE IF plugin_main_widget # "open"
    THEN /\ SetPlainText(WidgetClosedMessage, 0)
         /\ main_widget' = (IF responseTE = "live" THEN "None" ELSE main_widget)
         /\ async_thread' = 0
         /\ failures' = failures \cup {"lifecycle"}
         /\ ui_last' = Reading("set_pseudocode", TextCall)
         /\ UNCHANGED <<workers, next_worker>>
    ELSE /\ workers' = [workers EXCEPT ![next_worker] =
                            [pc |-> "running", code |-> code,
                             api_key |-> token_input, loop |-> "none"]]
         /\ async_thread' = next_worker
         /\ next_worker' = next_worker + 1
         /\ ui_last' = Reading("set_pseudocode", "not called")
         /\ UNCHANGED <<output, main_widget, failures>>

\* Lines 121-155 of set_pseudocode, after the cleanup of the previous thread
\* (which left _async_thread None): read the configuration, validate it, create
\* and start the worker.  When the output area was deleted, a setPlainText in
\* the try block raises RuntimeError, and the setPlainText of the except branch
\* (line 152) raises it again, out of set_pseudocode and before line 153.
SetPseudocodeBody(code) ==
    IF main_widget = "None"
    THEN \* lines 122-124
         /\ SetPlainText(NotInitializedMessage, 0)
         /\ async_thread' = 0
         /\ ui_last' = Reading("set_pseudocode", TextCall)
         /\ UNCHANGED <<main_widget, workers, next_worker, failures>>
    ELSE IF plugin_main_widget # "open"
    THEN \* lines 127 and 149-153: the controls are deleted, RuntimeError
         /\ SetPlainText(WidgetClosedMessage, 0)
         /\ main_widget' = (IF responseTE = "live" THEN "None" ELSE main_widget)
         /\ async_thread' = 0
         /\ failures' = failures \cup {"lifecycle"}
         /\ ui_last' = Reading("set_pseudocode", TextCall)
         /\ UNCHANGED <<workers, next_worker>>
    ELSE IF token_input = ""
    THEN \* lines 132-134
         /\ SetPlainText(ApiKeyRequiredMessage, 0)
         /\ async_thread' = 0
         /\ failures' = failures \cup {"credential"}
         /\ ui_last' = Reading("set_pseudocode", TextCall)
         /\ UNCHANGED <<main_widget, workers, next_worker>>
    ELSE \* lines 137-147
         /\ workers' = [workers EXCEPT ![next_worker] =
                            [pc |-> "running", code |-> code,
                             api_key |-> token_input, loop |-> "none"]]
         /\ async_thread' = next_worker
         /\ next_worker' = next_worker + 1
         /\ ui_last' = Reading("set_pseudocode", "not called")
         /\ UNCHANGED <<output, main_widget, failures>>

\* PluginForm.Show calls OnCreate, and PopulateForm creates the output area.
OnCreate ==
    /\ ui_pc = "idle"
    /\ responseTE = "None"
    /\ responseTE' = "live"
    /\ UNCHANGED <<output, plugin_main_widget, main_widget, token_input,
                   async_thread, workers, next_worker, event_queue, ui_pc,
                   ui_arg, ui_last, preempted, failures>>
    /\ UNCHANGED <<c_vars, d_vars>>

\* The user closes the summarize window: the host deletes the form's controls.
\* SummarizeWidget has no OnClose, so responseTE keeps the wrapper of the
\* deleted output area.
CloseSurface ==
    /\ ui_pc = "idle"
    /\ responseTE = "live"
    /\ responseTE' = "deleted"
    /\ UNCHANGED <<output, plugin_main_widget, main_widget, token_input,
                   async_thread, workers, next_worker, event_queue, ui_pc,
                   ui_arg, ui_last, preempted, failures>>
    /\ UNCHANGED <<c_vars, d_vars>>

\* AIDAPlugin.run: the main widget is created if there is none, and shown.
OpenMainWidget ==
    /\ ui_pc = "idle"
    /\ plugin_main_widget # "open"
    /\ plugin_main_widget' = "open"
    /\ UNCHANGED <<responseTE, output, main_widget, token_input, async_thread,
                   workers, next_worker, event_queue, ui_pc, ui_arg, ui_last,
                   preempted, failures>>
    /\ UNCHANGED <<c_vars, d_vars>>

\* The user closes the main widget: the host deletes its controls.
CloseMainWidget ==
    /\ ui_pc = "idle"
    /\ plugin_main_widget = "open"
    /\ plugin_main_widget' = "closed"
    /\ UNCHANGED <<responseTE, output, main_widget, token_input, async_thread,
                   workers, next_worker, event_queue, ui_pc, ui_arg, ui_last,
                   preempted, failures>>
    /\ UNCHANGED <<c_vars, d_vars>>

\* The user types or clears the credential.
EditToken ==
    /\ ui_pc = "idle"
    /\ plugin_main_widget = "open"
    /\ \E key \in ApiKeys : key # token_input /\ token_input' = key
    /\ UNCHANGED <<responseTE, output, plugin_main_widget, main_widget,
                   async_thread, workers, next_worker, event_queue, ui_pc,
                   ui_arg, ui_last, preempted, failures>>
    /\ UNCHANGED <<c_vars, d_vars>>

\* set_pseudocode(code) up to the end, or up to the wait() of _cleanup_thread
\* when there is a previous thread.
SetPseudocode ==
    /\ ui_pc = "idle"
    /\ next_worker <= MaxRequests
    /\ \E code \in SurfaceCodes :
        IF responseTE = "None"
        THEN \* line 115
             /\ ui_last' = Reading("set_pseudocode", "not called")
             /\ UNCHANGED <<output, main_widget, async_thread, workers,
                            next_worker, ui_pc, ui_arg, preempted, failures>>
        ELSE IF async_thread # 0
        THEN \* lines 118-119 and 102-104: quit(), then wait()
             /\ ui_pc' = "set_wait"
             /\ ui_arg' = code
             /\ preempted' = preempted \cup ({async_thread} \cap LiveWorkers)
             /\ UNCHANGED <<output, main_widget, async_thread, workers,
                            next_worker, ui_last, failures>>
        ELSE /\ SetPseudocodeBody(code)
             /\ UNCHANGED <<ui_pc, ui_arg, preempted>>
    /\ UNCHANGED <<responseTE, plugin_main_widget, token_input, event_queue>>
    /\ UNCHANGED <<c_vars, d_vars>>

\* wait() returns in _cleanup_thread: the reference is cleared (line 105) and the
\* handler that called it goes on to its end.
JoinReturns ==
    /\ ui_pc \in {"set_wait", "cb_wait"}
    /\ CanJoin(async_thread)
    /\ IF ui_pc = "set_wait"
       THEN SetPseudocodeBody(ui_arg)
       ELSE /\ async_thread' = 0
            /\ UNCHANGED <<output, main_widget, workers, next_worker, ui_last,
                           failures>>
    /\ ui_pc' = "idle"
    /\ ui_arg' = <<>>
    /\ UNCHANGED <<responseTE, plugin_main_widget, token_input, event_queue,
                   preempted>>
    /\ UNCHANGED <<c_vars, d_vars>>

\* AsyncThread.run, lines 35-50: the loop is set up, the coroutine is run to its
\* end, and its result is emitted: finished(result), or error(str(e)) when the
\* coroutine or the emit raises.
WorkerRun ==
    \E w \in DOMAIN workers, svc \in ServiceOutcomes :
        /\ workers[w].pc = "running"
        /\ LET r == ProcessRequest(DeepSeekV3, workers[w].code, CurrentLanguage,
                                   workers[w].api_key, svc)
               signal ==
                   IF r.raised
                   THEN [sender |-> w, signal |-> "error", text |-> <<"raised">>]
                   ELSE IF r.value.kind = "str"
                   THEN [sender |-> w, signal |-> "finished", text |-> r.value.text]
                   ELSE [sender |-> w, signal |-> "error", text |-> EmitTypeError]
           IN  /\ event_queue' = Append(event_queue, signal)
               /\ workers' = [workers EXCEPT ![w].pc = "emitted", ![w].loop = "open"]
               /\ failures' = IF svc = "content" THEN failures
                              ELSE failures \cup {"transport"}
        /\ UNCHANGED <<responseTE, output, plugin_main_widget, main_widget,
                       token_input, async_thread, next_worker, ui_pc, ui_arg,
                       ui_last, preempted>>
        /\ UNCHANGED <<c_vars, d_vars>>

\* AsyncThread.run, lines 51-55: the finally block, and the thread ends.
WorkerExit ==
    \E w \in DOMAIN workers :
        /\ workers[w].pc = "emitted"
        /\ workers' = [workers EXCEPT ![w].pc = "finished",
                          ![w].loop = LoopAfterFinally(workers[w].loop, FALSE)]
        /\ UNCHANGED <<responseTE, output, plugin_main_widget, main_widget,
                       token_input, async_thread, next_worker, event_queue,
                       ui_pc, ui_arg, ui_last, preempted, failures>>
        /\ UNCHANGED <<c_vars, d_vars>>

\* The UI thread's event loop delivers the oldest queued signal to its slot:
\* __on_ai_response or __on_ai_error, which show the text and clean up the
\* current thread.  With the output area deleted the slot passes its test of
\* responseTE, setPlainText raises RuntimeError, and the cleanup is not reached.
DeliverSignal ==
    /\ ui_pc = "idle"
    /\ event_queue # <<>>
    /\ event_queue' = Tail(event_queue)
    /\ IF responseTE = "None"
       THEN /\ ui_last' = Reading(Head(event_queue).signal, "not called")
            /\ UNCHANGED <<output, async_thread, ui_pc>>
       ELSE IF responseTE = "deleted"
       THEN /\ ui_last' = Reading(Head(event_queue).signal, "raised")
            /\ UNCHANGED <<output, async_thread, ui_pc>>
       ELSE /\ SetPlainText(Head(event_queue).text, Head(event_queue).sender)
            /\ ui_last' = Reading(Head(event_queue).signal, "shown")
            /\ IF async_thread # 0
               THEN ui_pc' = "cb_wait" /\ UNCHANGED async_thread
               ELSE UNCHANGED <<ui_pc, async_thread>>
    /\ UNCHANGED <<responseTE, plugin_main_widget, main_widget, token_input,
                   workers, next_worker, ui_arg, preempted, failures>>
    /\ UNCHANGED <<c_vars, d_vars>>

(***************************************************************************)
(* The specifications.                                                     *)
(***************************************************************************)
\* No call of the collector is under way.
CollectorAtRest ==
    /\ c_pc = "idle"
    /\ primary_pseudocode = <<>>
    /\ host = <<>>
    /\ result = <<>>
    /\ collected_funcs = {}
    /\ funcs_to_process = {}
    /\ host_calls = <<>>
    /\ sections = <<>>
    /\ c_raised = FALSE

\* No call of the dispatcher is under way.
DispatcherAtRest ==
    /\ d_pc = "idle"
    /\ d_args = [model_name |-> DeepSeekV3, pseudocode |-> <<>>,
                 target_language |-> CurrentLanguage, api_key |-> ""]
    /\ d_return = [kind |-> "pending", text |-> <<>>]
    /\ d_requests = <<>>

\* A summarize surface as SummarizeWidget.__init__ leaves it, given the plugin's
\* main widget pmw, whose credential field holds key.
SurfaceCreated(pmw, key) ==
    /\ responseTE = "None"
    /\ output = [text |-> <<>>, from |-> 0]
    /\ plugin_main_widget = pmw
    /\ main_widget = (IF pmw = "None" THEN "None" ELSE "ref")
    /\ token_input = key
    /\ async_thread = 0
    /\ workers = [w \in 1..MaxRequests |-> NoWorker]
    /\ next_worker = 1
    /\ event_queue = <<>>
    /\ ui_pc = "idle"
    /\ ui_arg = <<>>
    /\ ui_last = [op |-> "none", responseTE |-> "None", main_widget |-> "None",
                  plugin_main_widget |-> "None", api_key |-> "", next_worker |-> 1,
                  failures |-> {}, setPlainText |-> "not called"]
    /\ preempted = {}
    /\ failures = {}

\* The surface is created with no main widget, an open one, or one closed since.
SurfaceInit ==
    \E pmw \in {"None", "open", "closed"}, key \in ApiKeys : SurfaceCreated(pmw, key)

\* The surface, its workers and the user.
Init == SurfaceInit /\ CollectorAtRest /\ DispatcherAtRest

Next ==
    \/ OnCreate
    \/ CloseSurface
    \/ OpenMainWidget
    \/ CloseMainWidget
    \/ EditToken
    \/ SetPseudocode
    \/ JoinReturns
    \/ WorkerRun
    \/ WorkerExit
    \/ DeliverSignal

Spec == Init /\ [][Next]_vars

\* A call of the collector with any primary text, on any host database.
CollectInit ==
    /\ c_pc = "idle"
    /\ primary_pseudocode \in PrimaryTexts
    /\ host \in [ExtractSubFunctions(primary_pseudocode) -> HostOutcomes]
    /\ result = <<>>
    /\ collected_funcs = {}
    /\ funcs_to_process = {}
    /\ host_calls = <<>>
    /\ sections = <<>>
    /\ c_raised = FALSE
    /\ DispatcherAtRest
    /\ SurfaceCreated("None", "")

CollectNext == CollectStart \/ CollectIter \/ CollectReturn

SpecCollect == CollectInit /\ [][CollectNext]_vars

\* A call of the dispatcher with any model name, language and credential.
DispatchInit ==
    /\ d_pc = "idle"
    /\ d_args \in [model_name : ModelNames, pseudocode : Pseudocodes,
                   target_language : Languages, api_key : ApiKeys]
    /\ d_return = [kind |-> "pending", text |-> <<>>]
    /\ d_requests = <<>>
    /\ CollectorAtRest
    /\ SurfaceCreated("None", "")

DispatchNext == DispatchCall

SpecDispatch == DispatchInit /\ [][DispatchNext]_vars

(***************************************************************************)
(* Properties of the collector.                                            *)
(***************************************************************************)
\* The references of the primary text, stated without the matcher: a prefix
\* followed by hex digits up to the first character that is not one.
IsReferenceAt(t, i, n) ==
    /\ n >= 5
    /\ i + n - 1 <= Len(t)
    /\ \A k \in 1..4 : t[i + k - 1] = SubPrefix[k]
    /\ \A k \in 5..n : t[i + k - 1] \in HexDigits
    /\ CharAt(t, i + n) \notin HexDigits

\* No position of t starts a reference.
HasNoReference(t) ==
    \A i \in 1..Len(t) : \A n \in 5..Len(t) : ~IsReferenceAt(t, i, n)

\* The number of places where text p occurs in t.
Occurrences(t, p) == Cardinality({i \in 1..Len(t) : OccursAt(t, p, i)})

\* The number of helper sections of the output that name reference id.
SectionCount(t, id) == Occurrences(t, SectionLead \o id \o <<"\n">>)

\* The number of places of t where reference id stands, followed by tail.
ReferenceCount(t, id, tail) ==
    Cardinality({i \in 1..Len(t) :
        IsReferenceAt(t, i, Len(id)) /\ OccursAt(t, id \o tail, i)})

\* The cleaned body of the listing the host gives for a function that decompiles.
CleanBodyOf(id) ==
    id \o <<"(", ")", "\n", " ">> \o id \o <<"(", ")", ";", "\n", " ">>
       \o Sub1000 \o <<"(", ")", ";">> \o Sub2000 \o <<"(", ")", ";">>
       \o SubPrefix \o <<"9", "(", ")", ";">>

RECURSIVE SectionsText(_)
\* The helper sections of the references ids, in order.
SectionsText(ids) ==
    IF ids = <<>> THEN <<>>
    ELSE SectionLead \o Head(ids) \o <<"\n">> \o CleanBodyOf(Head(ids))
         \o SectionsText(Tail(ids))

\* C3: whatever the primary text, and however often a reference occurs in it, the
\* output holds at most one "// Function: <id>" section for each reference.
C3_AtMostOneSectionPerReference ==
    \A id \in ExtractSubFunctions(primary_pseudocode) :
        SectionCount(result, id) <= 1

\* C3's case: a reference that occurs twice in the primary text has its one
\* section in the returned text.
C3_Witness ==
    /\ c_pc = "done"
    /\ \E id \in ExtractSubFunctions(primary_pseudocode) :
        /\ ReferenceCount(primary_pseudocode, id, <<>>) >= 2
        /\ SectionCount(result, id) = 1

\* The primary texts of C4's example: sub_1000 called twice, sub_2000 once.
IsExampleText(t) ==
    /\ ReferenceCount(t, Sub1000, <<"(">>) = 2
    /\ ReferenceCount(t, Sub2000, <<"(">>) = 1

\* C4: for a primary text that calls sub_1000 twice and sub_2000 once, both
\* resolving to non-empty bodies, the returned text has exactly one section for
\* sub_1000 and exactly one for sub_2000.
C4_ExampleOneSectionEach ==
    (/\ c_pc = "done"
     /\ IsExampleText(primary_pseudocode)
     /\ host[Sub1000] = "ok"
     /\ host[Sub2000] = "ok")
    => (/\ SectionCount(result, Sub1000) = 1
        /\ SectionCount(result, Sub2000) = 1)

C6_NoReferenceUnchanged ==
    (c_pc # "idle" /\ HasNoReference(primary_pseudocode)) =>
        /\ result = primary_pseudocode
        /\ host_calls = <<>>
        /\ sections = <<>>
        /\ ~c_raised

\* C6's case: a non-empty text with the bare prefix and hex digits in it, but no
\* reference, has been returned.
C6_Witness ==
    /\ c_pc = "done"
    /\ HasNoReference(primary_pseudocode)
    /\ Occurrences(primary_pseudocode, SubPrefix) >= 1
    /\ Occurrences(primary_pseudocode, <<"A">>) >= 1
    /\ result = primary_pseudocode

\* C7: at every step of the loop and at the return, the text is the primary text
\* followed by the sections appended so far, each a separator line naming its
\* reference and then that helper's body.
C7_PrimaryFirstSectionsAppended ==
    c_pc # "idle" =>
        /\ IsPrefixOf(primary_pseudocode, result)
        /\ result = primary_pseudocode \o SectionsText(sections)

\* C7's case: two helper sections have been appended to a non-empty primary text.
C7_Witness ==
    /\ c_pc = "done"
    /\ Len(sections) = 2
    /\ primary_pseudocode # <<>>
    /\ Len(result) > Len(primary_pseudocode)

(***************************************************************************)
(* Properties of the dispatcher.                                           *)
(***************************************************************************)
\* The letters of "deepseek", each in either case.
DeepseekEitherCase ==
    <<{"d", "D"}, {"e", "E"}, {"e", "E"}, {"p", "P"}, {"s", "S"}, {"e", "E"},
      {"e", "E"}, {"k", "K"}>>

\* The model name starts with "deepseek", whatever the case of its letters.
InDeepseekFamily(name) ==
    /\ Len(name) >= 8
    /\ \A i \in 1..8 : name[i] \in DeepseekEitherCase[i]

\* C9: every call of the dispatcher ends by returning a string: it never raises,
\* and an exception of the translation call comes back as a string with the
\* label "Error processing request: ".
C9_AlwaysReturnsString ==
    d_pc = "done" => d_return.kind = "str"

C1_NoStaleResult ==
    [][(output'.from # output.from /\ output'.from \in preempted')
          => output'.from = next_worker' - 1]_vars

\* C2: at most one worker is live, it is the one _async_thread refers to, and
\* every worker created before another one had finished when that one was
\* started.
C2_AtMostOneLiveWorker ==
    /\ Cardinality(LiveWorkers) <= 1
    /\ \A w \in LiveWorkers : async_thread = w
    /\ \A v, w \in DOMAIN workers :
          (v < w /\ workers[w].pc # "none") => workers[v].pc = "finished"

\* C2's case: a second set_pseudocode was issued while worker 1 was in flight and
\* has returned; worker 2 is the one live worker.
C2_Witness ==
    /\ 1 \in preempted
    /\ ui_pc = "idle"
    /\ ui_last.op = "set_pseudocode"
    /\ workers[1].pc = "finished"
    /\ LiveWorkers = {2}

\* C8: when a set_pseudocode that found the configuration readable and the
\* credential empty has completed, the output area shows "API key is required",
\* the call created no worker, and no worker is live: nothing reaches the
\* dispatcher.
C8_EmptyCredentialStopsRequest ==
    (/\ ui_last.op = "set_pseudocode"
     /\ ui_last.responseTE = "live"
     /\ ui_last.main_widget = "ref"
     /\ ui_last.plugin_main_widget = "open"
     /\ ui_last.api_key = "")
    => (/\ output = [text |-> ApiKeyRequiredMessage, from |-> 0]
        /\ next_worker = ui_last.next_worker
        /\ async_thread = 0
        /\ LiveWorkers = {})

\* C8's case: a request with an empty credential was issued while an earlier
\* worker was in flight, and has completed with the validation message.
C8_Witness ==
    /\ ui_last.op = "set_pseudocode"
    /\ ui_last.responseTE = "live"
    /\ ui_last.main_widget = "ref"
    /\ ui_last.plugin_main_widget = "open"
    /\ ui_last.api_key = ""
    /\ preempted # {}
    /\ output.text = ApiKeyRequiredMessage

\* C11: no operation of the UI thread waits for a dispatch call: the UI thread is
\* never inside the wait() of _cleanup_thread, called by set_pseudocode or by a
\* callback, while the thread it waits for is still running its dispatch call.
C11_UiNeverWaitsForDispatch ==
    ~(/\ ui_pc \in {"set_wait", "cb_wait"}
      /\ async_thread # 0
      /\ workers[async_thread].pc = "running")

C13_CallbacksGuardDestroyedTarget ==
    (/\ ui_last.op \in {"finished", "error"}
     /\ ui_last.responseTE = "deleted")
    => ui_last.setPlainText = "not called"

\* C14: a worker whose run has finished created an event loop of its own and
\* left it stopped and closed, whether the dispatch call returned or raised.
C14_LoopClosedWhenRunFinishes ==
    \A w \in DOMAIN workers :
        workers[w].pc = "finished" => workers[w].loop = "closed"

\* The character after position k of t that follows s characters of whitespace
\* is an opening parenthesis, for some s up to gap.
ParenthesisAfter(t, k, gap) ==
    \E s \in 0..gap :
        /\ \A m \in 1..s : CharAt(t, k + m) \in Whitespace
        /\ CharAt(t, k + s + 1) = "("

\* A reference stands at position i of t with an opening parenthesis after it,
\* at most gap characters of whitespace in between.
IsCallAt(t, i, gap) ==
    \E n \in 5..(Len(t) - i + 1) :
        IsReferenceAt(t, i, n) /\ ParenthesisAfter(t, i + n - 1, gap)

\* Reference id is the first of t that an opening parenthesis follows, with at
\* most gap characters of whitespace in between.
IsFirstCall(t, id, gap) ==
    \E i \in 1..Len(t) :
        /\ OccursAt(t, id, i)
        /\ IsReferenceAt(t, i, Len(id))
        /\ ParenthesisAfter(t, i + Len(id) - 1, gap)
        /\ \A j \in 1..(i - 1) : ~IsCallAt(t, j, gap)

\* C15, as stated: the first reference of the primary text that an opening
\* parenthesis follows immediately is never passed to the host and never gets
\* a helper section.
C15_ImmediateCallNeverSubmitted ==
    \A id \in Range(host_calls) \cup Range(sections) :
        ~IsFirstCall(primary_pseudocode, id, 0)

\* C15, amended: the first reference of the primary text that an opening
\* parenthesis follows, immediately or after whitespace, is never passed to the
\* host and never gets a helper section, however often it occurs in the text.
C15_MainNeverSubmitted ==
    \A id \in Range(host_calls) \cup Range(sections) :
        ~IsFirstCall(primary_pseudocode, id, Len(primary_pseudocode))

\* C15's case: the collector has returned; the main reference occurs twice in
\* the primary text and the host can decompile it, and another reference of
\* the text got its section.
C15_Witness ==
    /\ c_pc = "done"
    /\ sections # <<>>
    /\ \E id \in DOMAIN host :
        /\ IsFirstCall(primary_pseudocode, id, Len(primary_pseudocode))
        /\ host[id] = "ok"
        /\ ReferenceCount(primary_pseudocode, id, <<>>) >= 2

\* Reference id stands somewhere in text t.
IsReferenceOf(t, id) ==
    \E i \in 1..Len(t) : IsReferenceAt(t, i, Len(id)) /\ OccursAt(t, id, i)

\* What is left for the collector to do: the steps before and after the loop,
\* and the references still pending.
StepsLeft ==
    CASE c_pc = "idle" -> 2 + Cardinality(DOMAIN host)
      [] c_pc = "loop" -> 1 + Cardinality(funcs_to_process)
      [] OTHER -> 0

\* The collector can take a step: it has not started, or it is in the loop,
\* where it takes a pending reference the host has an answer for, or returns.
CanStep ==
    \/ c_pc = "idle"
    \/ c_pc = "loop" /\ funcs_to_process \subseteq DOMAIN host

\* C16: the collector returns on every primary text, whatever the helper bodies
\* refer to: every step leaves it less to do and, unless it has returned, able
\* to take a further step; each turn of the loop takes a reference out of the
\* pending set and puts none in; only references of the primary text are passed
\* to the host, and none is passed twice.
C16_TerminatesEachReferenceOnce ==
    [][/\ StepsLeft' < StepsLeft
       /\ (c_pc = "done" \/ CanStep)'
       /\ c_pc = "loop" => funcs_to_process' \subseteq funcs_to_process
       /\ \A i \in 1..Len(host_calls') :
            /\ IsReferenceOf(primary_pseudocode, host_calls'[i])
            /\ \A j \in 1..Len(host_calls') :
                   host_calls'[i] = host_calls'[j] => i = j]_vars

\* C16's case: the collector has returned after two helpers of the primary text
\* were decompiled, each with a body that refers to itself and to the other
\* references, and each got its section.
C16_Witness ==
    /\ c_pc = "done"
    /\ Len(host_calls) >= 2
    /\ sections = host_calls
    /\ \A i \in 1..Len(host_calls) :
        /\ host[host_calls[i]] = "ok"
        /\ ExtractSubFunctions(CleanBodyOf(host_calls[i])) \ {host_calls[i]} # {}
        /\ host_calls[i] \in ExtractSubFunctions(CleanBodyOf(host_calls[i]))

====
